---- MODULE Spec2Model ----
(***************************************************************************)
(* Model of the configuration loader and the command line override engine *)
(* of backend/config.go.  Go strings are modelled as sequences of one      *)
(* character strings, so that HasPrefix, TrimLeft, Split, ParseBool,       *)
(* ParseInt and filepath.Join are computed character by character.         *)
(***************************************************************************)
EXTENDS Integers, Sequences, FiniteSets, TLC

VARIABLES config, args, idx, key, inParameter, pc, err, relativeTo

vars == <<config, args, idx, key, inParameter, pc, err, relativeTo>>

(* Bound on the number of tokens of one ReadParameters call. *)
MaxArgs == 4

(***************************************************************************)
(* Text literals.                                                          *)
(***************************************************************************)
Dash == "-"
Dot == "."
Tilde == "~"
Slash == "/"

Txt_server == <<"s", "e", "r", "v", "e", "r">>
Txt_paths == <<"p", "a", "t", "h", "s">>
Txt_redis == <<"r", "e", "d", "i", "s">>
Txt_mail == <<"m", "a", "i", "l">>
Txt_verbose == <<"v", "e", "r", "b", "o", "s", "e">>
Txt_address == <<"a", "d", "d", "r", "e", "s", "s">>
Txt_pathprefix == <<"p", "a", "t", "h", "p", "r", "e", "f", "i", "x">>
Txt_dbmanagment == <<"d", "b", "m", "a", "n", "a", "g", "m", "e", "n", "t">>
Txt_cors == <<"c", "o", "r", "s">>
Txt_auth == <<"a", "u", "t", "h">>
Txt_username == <<"u", "s", "e", "r", "n", "a", "m", "e">>
Txt_password == <<"p", "a", "s", "s", "w", "o", "r", "d">>
Txt_databases == <<"d", "a", "t", "a", "b", "a", "s", "e", "s">>
Txt_results == <<"r", "e", "s", "u", "l", "t", "s">>
Txt_temporary == <<"t", "e", "m", "p", "o", "r", "a", "r", "y">>
Txt_mmseqs == <<"m", "m", "s", "e", "q", "s">>
Txt_network == <<"n", "e", "t", "w", "o", "r", "k">>
Txt_index == <<"i", "n", "d", "e", "x">>
Txt_type == <<"t", "y", "p", "e">>
Txt_sender == <<"s", "e", "n", "d", "e", "r">>
Txt_templates == <<"t", "e", "m", "p", "l", "a", "t", "e", "s">>
Txt_success == <<"s", "u", "c", "c", "e", "s", "s">>
Txt_timeout == <<"t", "i", "m", "e", "o", "u", "t">>
Txt_error == <<"e", "r", "r", "o", "r">>
Txt_subject == <<"s", "u", "b", "j", "e", "c", "t">>
Txt_body == <<"b", "o", "d", "y">>

(***************************************************************************)
(* The schema: the struct types with their json tags, in declaration order.*)
(***************************************************************************)
TString == [kind |-> "string"]
TBool == [kind |-> "bool"]
TInt == [kind |-> "int"]

Field(name, tag, type) == [name |-> name, tag |-> tag, type |-> type]

ConfigPaths ==
  [kind |-> "struct",
   fields |-> << Field("Databases", Txt_databases, TString),
                 Field("Results", Txt_results, TString),
                 Field("Temporary", Txt_temporary, TString),
                 Field("Mmseqs", Txt_mmseqs, TString) >>]

ConfigRedis ==
  [kind |-> "struct",
   fields |-> << Field("Network", Txt_network, TString),
                 Field("Address", Txt_address, TString),
                 Field("Password", Txt_password, TString),
                 Field("DbIndex", Txt_index, TInt) >>]

ConfigMailTemplate ==
  [kind |-> "struct",
   fields |-> << Field("Subject", Txt_subject, TString),
                 Field("Body", Txt_body, TString) >>]

ConfigMailTemplates ==
  [kind |-> "struct",
   fields |-> << Field("Success", Txt_success, ConfigMailTemplate),
                 Field("Timeout", Txt_timeout, ConfigMailTemplate),
                 Field("Error", Txt_error, ConfigMailTemplate) >>]

ConfigMail ==
  [kind |-> "struct",
   fields |-> << Field("Transport", Txt_type, TString),
                 Field("Sender", Txt_sender, TString),
                 Field("Templates", Txt_templates, ConfigMailTemplates) >>]

ConfigAuth ==
  [kind |-> "struct",
   fields |-> << Field("Username", Txt_username, TString),
                 Field("Password", Txt_password, TString) >>]

ConfigServer ==
  [kind |-> "struct",
   fields |-> << Field("Address", Txt_address, TString),
                 Field("PathPrefix", Txt_pathprefix, TString),
                 Field("DbManagment", Txt_dbmanagment, TBool),
                 Field("CORS", Txt_cors, TBool),
                 Field("Auth", Txt_auth, [kind |-> "ptr", elem |-> ConfigAuth]) >>]

ConfigRoot ==
  [kind |-> "struct",
   fields |-> << Field("Server", Txt_server, ConfigServer),
                 Field("Paths", Txt_paths, ConfigPaths),
                 Field("Redis", Txt_redis, ConfigRedis),
                 Field("Mail", Txt_mail, ConfigMail),
                 Field("Verbose", Txt_verbose, TBool) >>]

(* A nil pointer is the empty sequence, an allocated one is <<pointee>>. *)
Nil == <<>>

(* The zero value of a type (what var x T and reflect.New(T) give). *)
RECURSIVE Zero(_)
Zero(t) ==
  CASE t.kind = "string" -> <<>>
    [] t.kind = "bool" -> FALSE
    [] t.kind = "int" -> 0
    [] t.kind = "ptr" -> Nil
    [] t.kind = "struct" ->
         [n \in {t.fields[i].name : i \in 1..Len(t.fields)} |->
            LET i == CHOOSE j \in 1..Len(t.fields) : t.fields[j].name = n
            IN  Zero(t.fields[i].type)]

(***************************************************************************)
(* package strings                                                         *)
(***************************************************************************)
HasPrefix(s, c) == Len(s) >= 1 /\ s[1] = c

RECURSIVE TrimLeft(_, _)
TrimLeft(s, c) ==
  IF Len(s) >= 1 /\ s[1] = c THEN TrimLeft(Tail(s), c) ELSE s

UpperCase == <<"A", "B", "C", "D", "E", "F", "G", "H", "I", "J", "K", "L", "M",
               "N", "O", "P", "Q", "R", "S", "T", "U", "V", "W", "X", "Y", "Z">>
LowerCase == <<"a", "b", "c", "d", "e", "f", "g", "h", "i", "j", "k", "l", "m",
               "n", "o", "p", "q", "r", "s", "t", "u", "v", "w", "x", "y", "z">>

ToLower(s) ==
  [i \in 1..Len(s) |->
     IF \E n \in 1..26 : UpperCase[n] = s[i]
     THEN LowerCase[CHOOSE n \in 1..26 : UpperCase[n] = s[i]]
     ELSE s[i]]

(* strings.Split(s, sep) for a one character separator: always at least *)
(* one segment, empty segments kept.                                     *)
RECURSIVE Split(_, _)
Split(s, c) ==
  IF \A i \in 1..Len(s) : s[i] # c
  THEN <<s>>
  ELSE LET i == CHOOSE j \in 1..Len(s) :
                  s[j] = c /\ \A k \in 1..(j - 1) : s[k] # c
       IN  <<SubSeq(s, 1, i - 1)>> \o Split(SubSeq(s, i + 1, Len(s)), c)

(***************************************************************************)
(* package strconv                                                         *)
(***************************************************************************)
ParseBoolTrue == { <<"1">>, <<"t">>, <<"T">>, <<"T", "R", "U", "E">>, <<"t", "r", "u", "e">>, <<"T", "r", "u", "e">> }
ParseBoolFalse == { <<"0">>, <<"f">>, <<"F">>, <<"F", "A", "L", "S", "E">>, <<"f", "a", "l", "s", "e">>, <<"F", "a", "l", "s", "e">> }

(* A ParseBool that compares without regard to case. *)
ParseBool_FoldCase(str) ==
  IF ToLower(str) \in { <<"1">>, <<"t">>, <<"t", "r", "u", "e">> } THEN [err |-> "", val |-> TRUE]
  ELSE IF ToLower(str) \in { <<"0">>, <<"f">>, <<"f", "a", "l", "s", "e">> } THEN [err |-> "", val |-> FALSE]
  ELSE [err |-> "strconv.ParseBool: invalid syntax", val |-> FALSE]

ParseBool(str) ==
  IF str \in ParseBoolTrue THEN [err |-> "", val |-> TRUE]
  ELSE IF str \in ParseBoolFalse THEN [err |-> "", val |-> FALSE]
  ELSE [err |-> "strconv.ParseBool: invalid syntax", val |-> FALSE]

Digits == <<"0", "1", "2", "3", "4", "5", "6", "7", "8", "9">>
IsDigit(c) == \E d \in 1..10 : Digits[d] = c
DigitVal(c) == (CHOOSE d \in 1..10 : Digits[d] = c) - 1

(* Decimal numerals without leading zeros, compared as numbers: the 64 bit *)
(* limits do not fit the model checker's integers.                         *)
StripZeros(ds) == TrimLeft(ds, "0")

RECURSIVE LexGreater(_, _)
LexGreater(a, b) ==
  IF a = <<>> THEN FALSE
  ELSE IF DigitVal(a[1]) # DigitVal(b[1]) THEN DigitVal(a[1]) > DigitVal(b[1])
  ELSE LexGreater(Tail(a), Tail(b))

DecGreater(a, b) ==
  LET x == StripZeros(a)
      y == StripZeros(b)
  IN  Len(x) > Len(y) \/ (Len(x) = Len(y) /\ LexGreater(x, y))

MaxUint64 == <<"1", "8", "4", "4", "6", "7", "4", "4", "0", "7", "3", "7", "0", "9", "5", "5", "1", "6", "1", "5">>
MinInt64Magnitude == <<"9", "2", "2", "3", "3", "7", "2", "0", "3", "6", "8", "5", "4", "7", "7", "5", "8", "0", "8">>

RECURSIVE DecValue(_, _)
DecValue(ds, acc) ==
  IF ds = <<>> THEN acc ELSE DecValue(Tail(ds), acc * 10 + DigitVal(ds[1]))

(* ParseUint(s, 10, 64): the scan stops at the first character that is no  *)
(* digit (syntax error) or at the first digit that takes the number past   *)
(* the 64 bit maximum (range error).  The number is returned as its digits.*)
RECURSIVE ParseUintScan(_, _)
ParseUintScan(s, i) ==
  IF i > Len(s) THEN [err |-> "", digits |-> s]
  ELSE IF ~IsDigit(s[i]) THEN [err |-> "syntax", digits |-> <<>>]
  ELSE IF DecGreater(SubSeq(s, 1, i), MaxUint64) THEN [err |-> "range", digits |-> MaxUint64]
  ELSE ParseUintScan(s, i + 1)

ParseUint(s) ==
  IF s = <<>> THEN [err |-> "syntax", digits |-> <<>>] ELSE ParseUintScan(s, 1)

(* A ParseInt that gives 0 for what is no numeral. *)
ParseInt_Lenient(s) ==
  IF s = <<>> THEN [err |-> "", val |-> 0]
  ELSE LET neg == s[1] = "-"
           rest == IF s[1] = "+" \/ s[1] = "-" THEN Tail(s) ELSE s
           un == ParseUint(rest)
       IN  IF un.err = "syntax"
           THEN [err |-> "", val |-> 0]
           ELSE IF ~neg /\ ~DecGreater(MinInt64Magnitude, un.digits)
           THEN [err |-> "strconv.ParseInt: value out of range", val |-> 0]
           ELSE IF neg /\ DecGreater(un.digits, MinInt64Magnitude)
           THEN [err |-> "strconv.ParseInt: value out of range", val |-> 0]
           ELSE [err |-> "",
                 val |-> IF neg THEN 0 - DecValue(un.digits, 0)
                                ELSE DecValue(un.digits, 0)]

(* ParseInt(s, 10, 64) *)
ParseInt(s) ==
  IF s = <<>> THEN [err |-> "strconv.ParseInt: invalid syntax", val |-> 0]
  ELSE LET neg == s[1] = "-"
           rest == IF s[1] = "+" \/ s[1] = "-" THEN Tail(s) ELSE s
           un == ParseUint(rest)
       IN  IF un.err = "syntax"
           THEN [err |-> "strconv.ParseInt: invalid syntax", val |-> 0]
           ELSE IF ~neg /\ ~DecGreater(MinInt64Magnitude, un.digits)
           THEN [err |-> "strconv.ParseInt: value out of range", val |-> 0]
           ELSE IF neg /\ DecGreater(un.digits, MinInt64Magnitude)
           THEN [err |-> "strconv.ParseInt: value out of range", val |-> 0]
           ELSE [err |-> "",
                 val |-> IF neg THEN 0 - DecValue(un.digits, 0)
                                ELSE DecValue(un.digits, 0)]

(***************************************************************************)
(* The override engine                                                     *)
(***************************************************************************)
(* The index of the first field whose json tag equals seg, 0 if none.  *)
(* Fields with an empty tag or the tag "-" are skipped.                *)
MatchField(fields, seg) ==
  LET hit(i) == /\ fields[i].tag # <<>>
                /\ fields[i].tag # <<"-">>
                /\ fields[i].tag = seg
  IN  IF \E i \in 1..Len(fields) : hit(i)
      THEN CHOOSE i \in 1..Len(fields) : hit(i) /\ \A j \in 1..(i - 1) : ~hit(j)
      ELSE 0

(* The switch that writes a text leaf only while it holds its zero value. *)
SetLeaf_KeepFirst(t, v, value) ==
  CASE t.kind = "struct" -> [err |-> "Leaf node is a struct", val |-> v]
    [] t.kind = "int" ->
         LET r == ParseInt(value)
         IN  IF r.err # "" THEN [err |-> r.err, val |-> v]
                           ELSE [err |-> "", val |-> r.val]
    [] t.kind = "bool" ->
         LET r == ParseBool(value)
         IN  IF r.err # "" THEN [err |-> r.err, val |-> v]
                           ELSE [err |-> "", val |-> r.val]
    [] t.kind = "string" -> [err |-> "", val |-> IF v = <<>> THEN value ELSE v]
    [] OTHER -> [err |-> "Leaf node type not implemented", val |-> v]

(* What setNodeValue does with the exhausted path: the switch on v.Kind(). *)
(* No field of the tree has an unsigned type.  int is 64 bits wide, so     *)
(* SetInt stores the parsed number as it is.                               *)
SetLeaf(t, v, value) ==
  CASE t.kind = "struct" -> [err |-> "Leaf node is a struct", val |-> v]
    [] t.kind = "int" ->
         LET r == ParseInt(value)
         IN  IF r.err # "" THEN [err |-> r.err, val |-> v]
                           ELSE [err |-> "", val |-> r.val]
    [] t.kind = "bool" ->
         LET r == ParseBool(value)
         IN  IF r.err # "" THEN [err |-> r.err, val |-> v]
                           ELSE [err |-> "", val |-> r.val]
    [] t.kind = "string" -> [err |-> "", val |-> value]
    [] OTHER -> [err |-> "Leaf node type not implemented", val |-> v]

(* The pointer step that allocates on every visit. *)
AllocIfNil_Always(t, v) == <<Zero(t.elem)>>

(* The store that replaces the struct by a fresh one holding the field. *)
StoreField_Reset(t, sv, name, x) == [Zero(t) EXCEPT ![name] = x]

(* v.IsNil(): reflect.New(t) and v.Set(n); then v.Elem(). *)
AllocIfNil(t, v) == IF v = Nil THEN <<Zero(t.elem)>> ELSE v

(* The write through v.Field(i): field name of the struct sv now holds x. *)
StoreField(t, sv, name, x) == [sv EXCEPT ![name] = x]

(* setNodeValue on the node of type t holding v: the error returned and   *)
(* the node after the call (it is changed in place, also by a failing     *)
(* call).                                                                 *)
RECURSIVE setNodeValue(_, _, _, _)
setNodeValue(t, v, path, value) ==
  IF Len(path) = 0 THEN SetLeaf(t, v, value)
  ELSE
    LET isPtr == t.kind = "ptr"
        ptr == IF isPtr THEN AllocIfNil(t, v) ELSE v
        st == IF isPtr THEN t.elem ELSE t
        sv == IF isPtr THEN ptr[1] ELSE v
        wrap(x) == IF isPtr THEN <<x>> ELSE x
    IN  IF st.kind # "struct"
        THEN [err |-> "Node is not a struct", val |-> wrap(sv)]
        ELSE LET i == MatchField(st.fields, path[1])
             IN  IF i = 0
                 THEN [err |-> "Path not found in config", val |-> wrap(sv)]
                 ELSE LET f == st.fields[i]
                          r == setNodeValue(f.type, sv[f.name], Tail(path), value)
                      IN  [err |-> r.err,
                           val |-> wrap(StoreField(st, sv, f.name, r.val))]

setParameter(c, k, value) == setNodeValue(ConfigRoot, c, Split(k, Dot), value)

(***************************************************************************)
(* package path/filepath                                                   *)
(***************************************************************************)
RECURSIVE JoinWith(_, _)
JoinWith(parts, c) ==
  IF parts = <<>> THEN <<>>
  ELSE IF Len(parts) = 1 THEN parts[1]
  ELSE parts[1] \o <<c>> \o JoinWith(Tail(parts), c)

RECURSIVE CleanStack(_, _, _)
CleanStack(comps, stack, rooted) ==
  IF comps = <<>> THEN stack
  ELSE LET c == comps[1]
           next ==
             IF c = <<>> \/ c = <<".">> THEN stack
             ELSE IF c = <<".", ".">>
             THEN IF stack # <<>> /\ stack[Len(stack)] # <<".", ".">>
                  THEN SubSeq(stack, 1, Len(stack) - 1)
                  ELSE IF rooted THEN stack ELSE Append(stack, c)
             ELSE Append(stack, c)
       IN  CleanStack(Tail(comps), next, rooted)

Clean(p) ==
  IF p = <<>> THEN <<".">>
  ELSE LET rooted == p[1] = Slash
           body == JoinWith(CleanStack(Split(p, Slash), <<>>, rooted), Slash)
       IN  IF rooted THEN <<Slash>> \o body
           ELSE IF body = <<>> THEN <<".">> ELSE body

(* filepath.Join(a, b) *)
Join(a, b) ==
  IF a # <<>> THEN Clean(a \o <<Slash>> \o b)
  ELSE IF b # <<>> THEN Clean(b)
  ELSE <<>>

(***************************************************************************)
(* The loader                                                              *)
(***************************************************************************)
NormalizePath(p, rel) ==
  IF HasPrefix(p, Tilde) THEN Join(rel, TrimLeft(p, Tilde)) ELSE p

(* The loop of ReadConfig over Databases, Results and Mmseqs. *)
NormalizePaths(c, rel) ==
  [c EXCEPT !.Paths.Databases = NormalizePath(@, rel),
            !.Paths.Results = NormalizePath(@, rel),
            !.Paths.Mmseqs = NormalizePath(@, rel)]

(* What DecodeJsonAndValidate leaves in config for the embedded default *)
(* document.                                                            *)
DecodedDefault ==
  [Server |-> [Address |-> <<"1", "2", "7", ".", "0", ".", "0", ".", "1", ":", "8", "0", "8", "1">>,
               PathPrefix |-> <<"/", "a", "p", "i", "/">>,
               DbManagment |-> FALSE,
               CORS |-> TRUE,
               Auth |-> Nil],
   Paths |-> [Databases |-> <<"~", "d", "a", "t", "a", "b", "a", "s", "e", "s">>,
              Results |-> <<"~", "j", "o", "b", "s">>,
              Temporary |-> <<>>,
              Mmseqs |-> <<"~", "m", "m", "s", "e", "q", "s">>],
   Redis |-> [Network |-> <<"t", "c", "p">>,
              Address |-> <<"l", "o", "c", "a", "l", "h", "o", "s", "t", ":", "6", "3", "7", "9">>,
              Password |-> <<>>,
              DbIndex |-> 0],
   Mail |-> [Transport |-> <<"n", "u", "l", "l">>,
             Sender |-> <<"m", "a", "i", "l", "@", "e", "x", "a", "m", "p", "l", "e", ".", "o", "r", "g">>,
             Templates |->
               [Success |-> [Subject |-> <<"D", "o", "n", "e", " ", "-", "-", " ", "%", "s">>, Body |-> <<"%", "s">>],
                Timeout |-> [Subject |-> <<"T", "i", "m", "e", "o", "u", "t", " ", "-", "-", " ", "%", "s">>, Body |-> <<"%", "s">>],
                Error |-> [Subject |-> <<"E", "r", "r", "o", "r", " ", "-", "-", " ", "%", "s">>, Body |-> <<"%", "s">>]]],
   Verbose |-> TRUE]

(* The directory of the executable, for DefaultConfig. *)
ExecutableDir == <<"/", "o", "p", "t", "/", "a", "p", "p">>

(* The tree DefaultConfig returns. *)
DefaultConfig == NormalizePaths(DecodedDefault, ExecutableDir)

InvalidParameterString == "Invalid Parameter String"

(***************************************************************************)
(* Actions                                                                 *)
(***************************************************************************)
(* ReadConfig: the decoder either fails, and the call returns its error,  *)
(* or it leaves the decoded tree in config and the paths are normalized.  *)
ReadConfig ==
  /\ pc = "load"
  /\ \/ /\ pc' = "done"
        /\ err' = "Fatal error for config file"
        /\ UNCHANGED config
     \/ /\ config' = NormalizePaths(config, relativeTo)
        /\ pc' = "scan"
        /\ UNCHANGED err
  /\ UNCHANGED <<args, idx, key, inParameter, relativeTo>>

(* One iteration of the loop of ReadParameters on a token starting with - *)
FlagToken ==
  /\ pc = "scan"
  /\ idx < Len(args)
  /\ HasPrefix(args[idx + 1], Dash)
  /\ IF inParameter
     THEN /\ err' = InvalidParameterString
          /\ pc' = "done"
          /\ UNCHANGED <<key, inParameter, idx>>
     ELSE /\ key' = TrimLeft(args[idx + 1], Dash)
          /\ inParameter' = TRUE
          /\ idx' = idx + 1
          /\ UNCHANGED <<pc, err>>
  /\ UNCHANGED <<config, args, relativeTo>>

(* The iteration on a value that goes on with the loop after an override *)
(* has failed.                                                           *)
ValueToken_NoAbort ==
  /\ pc = "scan"
  /\ idx < Len(args)
  /\ ~HasPrefix(args[idx + 1], Dash)
  /\ IF ~inParameter
     THEN /\ err' = InvalidParameterString
          /\ pc' = "done"
          /\ UNCHANGED <<config, inParameter, idx>>
     ELSE /\ config' = setParameter(config, key, args[idx + 1]).val
          /\ inParameter' = FALSE
          /\ idx' = idx + 1
          /\ UNCHANGED <<pc, err>>
  /\ UNCHANGED <<key, args, relativeTo>>

(* One iteration of the loop of ReadParameters on any other token. *)
ValueToken ==
  /\ pc = "scan"
  /\ idx < Len(args)
  /\ ~HasPrefix(args[idx + 1], Dash)
  /\ IF ~inParameter
     THEN /\ err' = InvalidParameterString
          /\ pc' = "done"
          /\ UNCHANGED <<config, inParameter, idx>>
     ELSE LET r == setParameter(config, key, args[idx + 1])
          IN  /\ config' = r.val
              /\ IF r.err # ""
                 THEN /\ err' = r.err
                      /\ pc' = "done"
                      /\ UNCHANGED <<inParameter, idx>>
                 ELSE /\ inParameter' = FALSE
                      /\ idx' = idx + 1
                      /\ UNCHANGED <<pc, err>>
  /\ UNCHANGED <<key, args, relativeTo>>

(* The end of the loop without the check for a flag left without value. *)
EndOfArgs_NoTrailingCheck ==
  /\ pc = "scan"
  /\ idx = Len(args)
  /\ err' = ""
  /\ pc' = "done"
  /\ UNCHANGED <<config, args, idx, key, inParameter, relativeTo>>

(* The end of the loop of ReadParameters. *)
EndOfArgs ==
  /\ pc = "scan"
  /\ idx = Len(args)
  /\ err' = IF inParameter THEN InvalidParameterString ELSE ""
  /\ pc' = "done"
  /\ UNCHANGED <<config, args, idx, key, inParameter, relativeTo>>

Next == FlagToken \/ ValueToken \/ EndOfArgs

(***************************************************************************)
(* Inputs                                                                  *)
(***************************************************************************)
SeqsUpTo(S, n) == UNION {[1..k -> S] : k \in 0..n}

Flag(path) == <<Dash>> \o JoinWith(path, Dot)

(* ReadParameters on the default tree with the token list a. *)
InitArgs(A) ==
  /\ config = DefaultConfig
  /\ args \in A
  /\ idx = 0
  /\ key = <<>>
  /\ inParameter = FALSE
  /\ pc = "scan"
  /\ err = ""
  /\ relativeTo = ExecutableDir

(* Bounds on the number of tokens of the longer and of the shorter calls. *)
MaxArgsLong == 6
MaxArgsShort == 3

F_server_address == Flag(<<Txt_server, Txt_address>>)
F_auth_username == Flag(<<Txt_server, Txt_auth, Txt_username>>)
F_auth_password == Flag(<<Txt_server, Txt_auth, Txt_password>>)
F_auth_nonexistent == Flag(<<Txt_server, Txt_auth, <<"n", "o", "n", "e", "x", "i", "s", "t", "e", "n", "t">>>>)
F_server_nonexistent == Flag(<<Txt_server, <<"n", "o", "n", "e", "x", "i", "s", "t", "e", "n", "t">>>>)
F_server == Flag(<<Txt_server>>)
F_server_auth == Flag(<<Txt_server, Txt_auth>>)
F_mail_templates == Flag(<<Txt_mail, Txt_templates>>)
F_server_cors == Flag(<<Txt_server, Txt_cors>>)
F_server_dbmanagment == Flag(<<Txt_server, Txt_dbmanagment>>)
F_verbose == Flag(<<Txt_verbose>>)
F_redis_index == Flag(<<Txt_redis, Txt_index>>)
F_a == <<"-", "a">>
F_b == <<"-", "b">>
F_dashdash_address == <<Dash>> \o F_server_address
V_alice == <<"a", "l", "i", "c", "e">>
V_s3cr3t == <<"s", "3", "c", "r", "3", "t">>
V_true == <<"t", "r", "u", "e">>
V_3 == <<"3">>
V_v == <<"v">>
V_v1 == <<"v", "1">>
V_addr1 == <<"1", ".", "2", ".", "3", ".", "4", ":", "8", "0">>
V_addr2 == <<"5", ".", "6", ".", "7", ".", "8", ":", "9", "0">>

(* Overrides of text, boolean and integer leaves, of the optional auth *)
(* record, of records and of unknown paths.                            *)
Tokens ==
  { F_server_address, F_auth_username, F_auth_password, F_auth_nonexistent,
    F_server_nonexistent, F_server, F_server_auth, F_mail_templates,
    F_server_cors, F_redis_index,
    V_alice, V_s3cr3t, V_true, V_3 }

Init == InitArgs(SeqsUpTo(Tokens, MaxArgs))

Spec == Init /\ [][Next]_vars

(* Token lists that break the alternation of flags and values. *)
SyntaxTokens == { F_a, F_b, V_v, V_v1, F_server_address, F_dashdash_address }

InitSyntax == InitArgs(SeqsUpTo(SyntaxTokens, MaxArgs))

SpecSyntax == InitSyntax /\ [][Next]_vars

(* Longer calls: repeated overrides of one leaf, and a failing override *)
(* between successful ones.                                             *)
AbortTokens == { F_server_address, F_auth_username, F_server_nonexistent, V_addr1, V_addr2 }

InitAbort == InitArgs(SeqsUpTo(AbortTokens, MaxArgsLong))

SpecAbort == InitAbort /\ [][Next]_vars

(* Overrides of the boolean leaves, with every spelling ParseBool accepts. *)
BoolValues ==
  { <<"1">>, <<"t">>, <<"T">>, <<"T", "R", "U", "E">>, <<"t", "r", "u", "e">>, <<"T", "r", "u", "e">>,
    <<"0">>, <<"f">>, <<"F">>, <<"F", "A", "L", "S", "E">>, <<"f", "a", "l", "s", "e">>, <<"F", "a", "l", "s", "e">>,
    <<"y", "e", "s">>, <<"t", "R", "U", "E">>, <<"f", "A", "L", "S", "E">> }

BoolTokens == { F_server_cors, F_server_dbmanagment, F_verbose } \cup BoolValues

InitBool == InitArgs(SeqsUpTo(BoolTokens, MaxArgsShort))

SpecBool == InitBool /\ [][Next]_vars

(* Overrides of the integer leaf.  The numerals that fit 64 bits are kept *)
(* below 2^31, the largest number the model checker computes with.        *)
IntValues ==
  { <<"3">>, <<"0">>, <<"0", "0", "7">>, <<"+", "7">>, <<"2", "1", "4", "7", "4", "8", "3", "6", "4", "7">>,
    <<"n", "o", "t", "a", "n", "u", "m", "b", "e", "r">>, <<"3", "x">>, <<>>,
    <<"9", "2", "2", "3", "3", "7", "2", "0", "3", "6", "8", "5", "4", "7", "7", "5", "8", "0", "8">>, <<"9", "9", "9", "9", "9", "9", "9", "9", "9", "9", "9", "9", "9", "9", "9", "9", "9", "9", "9", "9">> }

IntTokens == { F_redis_index } \cup IntValues

InitInt == InitArgs(SeqsUpTo(IntTokens, MaxArgs))

SpecInt == InitInt /\ [][Next]_vars

(* ReadConfig on decoded documents with several shapes of path values. *)
PathValues ==
  { <<"~", "d", "a", "t", "a", "b", "a", "s", "e", "s">>, <<"d", "a", "t", "a", "b", "a", "s", "e", "s">>, <<"/", "d", "a", "t", "a", "/", "d", "b">>, <<"~", "~", "d", "a", "t", "a", "b", "a", "s", "e", "s">>,
    <<"~">>, <<"~", "/", "j", "o", "b", "s">>, <<"~", ".", ".", "/", "x">> }

Anchors == { ExecutableDir, <<"/">> }

InitLoad ==
  /\ \E d \in PathValues, r \in PathValues, m \in PathValues, t \in {<<>>, <<"~", "t", "m", "p">>} :
       config = [DecodedDefault EXCEPT !.Paths.Databases = d,
                                       !.Paths.Results = r,
                                       !.Paths.Mmseqs = m,
                                       !.Paths.Temporary = t]
  /\ relativeTo \in Anchors
  /\ args = <<>>
  /\ idx = 0
  /\ key = <<>>
  /\ inParameter = FALSE
  /\ pc = "load"
  /\ err = ""

SpecLoad == InitLoad /\ [][ReadConfig]_vars

(***************************************************************************)
(* Properties                                                              *)
(***************************************************************************)
(* The next step of the loop applies the override (key, Value). *)
Applying ==
  /\ pc = "scan"
  /\ inParameter
  /\ idx < Len(args)
  /\ ~HasPrefix(args[idx + 1], Dash)

Value == args[idx + 1]
Path == Split(key, Dot)
Succeeds == pc' = "scan" /\ idx' = idx + 1 /\ err' = ""
Fails == pc' = "done" /\ err' # ""

IsFlag(tok) == tok # <<>> /\ tok[1] = Dash

(* Position i of the token list a breaks the alternation: a value where a *)
(* flag is due, a flag where a value is due, or the end of the list after *)
(* a flag.                                                                *)
BreaksAt(a, i) ==
  \/ i <= Len(a) /\ i % 2 = 1 /\ ~IsFlag(a[i])
  \/ i <= Len(a) /\ i % 2 = 0 /\ IsFlag(a[i])
  \/ i = Len(a) + 1 /\ Len(a) % 2 = 1

Alternates(a) == \A i \in 1..(Len(a) + 1) : ~BreaksAt(a, i)

FirstBreak(a) ==
  CHOOSE i \in 1..(Len(a) + 1) : BreaksAt(a, i) /\ \A j \in 1..(i - 1) : ~BreaksAt(a, j)

(* C1 as stated: every token list that breaks the alternation of flags     *)
(* and values makes the call fail with "Invalid Parameter String".         *)
C1_Original ==
  (pc = "done" /\ ~Alternates(args)) => err = InvalidParameterString

(* C1 as amended: a token list that breaks the alternation makes the call   *)
(* fail; the error is "Invalid Parameter String", raised at the first      *)
(* break, unless a well paired override before the first break fails, and  *)
(* then the call fails with the error of that override.  Of the three      *)
(* lists of the claim -a -b v and v fail with the syntax error and         *)
(* -a v1 -b fails with "Path not found in config".                         *)
C1_Amended ==
  /\ (pc = "done" /\ ~Alternates(args)) =>
        /\ err # ""
        /\ IF err = InvalidParameterString
           THEN idx + 1 = FirstBreak(args)
           ELSE /\ idx + 1 < FirstBreak(args)
                /\ idx % 2 = 1
                /\ err = setParameter(config, TrimLeft(args[idx], Dash), args[idx + 1]).err
  /\ (pc = "done" /\ ~Alternates(args)
        /\ \A i \in 1..(FirstBreak(args) - 1) :
              i % 2 = 1 => TrimLeft(args[i], Dash) = Tail(F_server_address))
        => err = InvalidParameterString
  /\ (pc = "done" /\ args = <<F_a, F_b, V_v>>) => err = InvalidParameterString
  /\ (pc = "done" /\ args = <<V_v>>) => err = InvalidParameterString
  /\ (pc = "done" /\ args = <<F_a, V_v1, F_b>>) => err = "Path not found in config"

(* A call with a trailing flag after a successful override has failed with *)
(* the syntax error.                                                      *)
C1_Witness ==
  /\ pc = "done"
  /\ args = <<F_server_address, V_v1, F_b>>
  /\ err = InvalidParameterString
  /\ config.Server.Address = V_v1

(* The scalar leaves of a tree as pairs of dotted path and value; the     *)
(* leaves of the auth record are there when the record is.                *)
AuthKeys == { JoinWith(<<Txt_server, Txt_auth, Txt_username>>, Dot),
              JoinWith(<<Txt_server, Txt_auth, Txt_password>>, Dot) }

TemplateLeaves(name, m) ==
  { <<JoinWith(<<Txt_mail, Txt_templates, name, Txt_subject>>, Dot), m.Subject>>,
    <<JoinWith(<<Txt_mail, Txt_templates, name, Txt_body>>, Dot), m.Body>> }

Leaves(c) ==
  { <<JoinWith(<<Txt_server, Txt_address>>, Dot), c.Server.Address>>,
    <<JoinWith(<<Txt_server, Txt_pathprefix>>, Dot), c.Server.PathPrefix>>,
    <<JoinWith(<<Txt_server, Txt_dbmanagment>>, Dot), c.Server.DbManagment>>,
    <<JoinWith(<<Txt_server, Txt_cors>>, Dot), c.Server.CORS>>,
    <<JoinWith(<<Txt_paths, Txt_databases>>, Dot), c.Paths.Databases>>,
    <<JoinWith(<<Txt_paths, Txt_results>>, Dot), c.Paths.Results>>,
    <<JoinWith(<<Txt_paths, Txt_temporary>>, Dot), c.Paths.Temporary>>,
    <<JoinWith(<<Txt_paths, Txt_mmseqs>>, Dot), c.Paths.Mmseqs>>,
    <<JoinWith(<<Txt_redis, Txt_network>>, Dot), c.Redis.Network>>,
    <<JoinWith(<<Txt_redis, Txt_address>>, Dot), c.Redis.Address>>,
    <<JoinWith(<<Txt_redis, Txt_password>>, Dot), c.Redis.Password>>,
    <<JoinWith(<<Txt_redis, Txt_index>>, Dot), c.Redis.DbIndex>>,
    <<JoinWith(<<Txt_mail, Txt_type>>, Dot), c.Mail.Transport>>,
    <<JoinWith(<<Txt_mail, Txt_sender>>, Dot), c.Mail.Sender>>,
    <<Txt_verbose, c.Verbose>> }
  \cup TemplateLeaves(Txt_success, c.Mail.Templates.Success)
  \cup TemplateLeaves(Txt_timeout, c.Mail.Templates.Timeout)
  \cup TemplateLeaves(Txt_error, c.Mail.Templates.Error)
  \cup (IF c.Server.Auth = Nil THEN {}
        ELSE { <<JoinWith(<<Txt_server, Txt_auth, Txt_username>>, Dot), c.Server.Auth[1].Username>>,
               <<JoinWith(<<Txt_server, Txt_auth, Txt_password>>, Dot), c.Server.Auth[1].Password>> })

(* The leaves an allocation of the auth record adds. *)
ZeroAuthLeaves == { <<k, <<>>>> : k \in AuthKeys }

(* The tree after the first n overrides of the token list a, one by one. *)
RECURSIVE AfterOverrides(_, _, _)
AfterOverrides(c, a, n) ==
  IF n = 0 THEN c
  ELSE setParameter(AfterOverrides(c, a, n - 1), TrimLeft(a[2 * n - 1], Dash), a[2 * n]).val

OverrideError(c, a, n) ==
  setParameter(AfterOverrides(c, a, n - 1), TrimLeft(a[2 * n - 1], Dash), a[2 * n]).err

(* C2: when override k of a call fails, the call has returned the error   *)
(* of that override; each leaf written by the overrides before k holds    *)
(* the value written last to it, the tree is the one those overrides left *)
(* (but for an auth record the failing override allocated), and no later  *)
(* override was applied.  A call that returned no error had no failing    *)
(* override.                                                              *)
C2_AbortKeepsEarlierWrites ==
  /\ (pc = "done" /\ err \notin {"", InvalidParameterString}) =>
        LET k == (idx + 1) \div 2
            before == AfterOverrides(DefaultConfig, args, k - 1)
        IN  /\ idx % 2 = 1
            /\ err = OverrideError(DefaultConfig, args, k)
            /\ \A j \in 1..(k - 1) : OverrideError(DefaultConfig, args, j) = ""
            /\ \A j \in 1..(k - 1) :
                  (\A m \in (j + 1)..(k - 1) : args[2 * m - 1] # args[2 * j - 1])
                    => <<TrimLeft(args[2 * j - 1], Dash), args[2 * j]>> \in Leaves(config)
            /\ Leaves(before) \subseteq Leaves(config)
            /\ Leaves(config) \ Leaves(before) \subseteq ZeroAuthLeaves
  /\ (pc = "done" /\ err = "" ) =>
        \A j \in 1..(Len(args) \div 2) : OverrideError(DefaultConfig, args, j) = ""

(* The second of three overrides failed: the first is kept, the third *)
(* was not applied.                                                   *)
C2_Witness ==
  /\ pc = "done"
  /\ args = <<F_server_address, V_addr1, F_server_nonexistent, V_addr2,
              F_auth_username, V_addr2>>
  /\ err = "Path not found in config"
  /\ config.Server.Address = V_addr1
  /\ config.Server.Auth = Nil

(* The last pair of the token list a with flag f, 0 if none. *)
LastPair(a, f) ==
  LET hits == { j \in 1..(Len(a) \div 2) : a[2 * j - 1] = f }
  IN  IF hits = {} THEN 0 ELSE CHOOSE j \in hits : \A m \in hits : m <= j

(* C3: after a call that returned no error each leaf that overrides of    *)
(* the call target holds the value of the last of them, and a leaf no     *)
(* override targets holds what it held before; repeating a path is no     *)
(* error.                                                                 *)
C3_LastWriteWins ==
  /\ (pc = "done" /\ err = "") =>
        \A f \in {F_server_address, F_auth_username} :
          LET j == LastPair(args, f)
          IN  IF j # 0
              THEN <<Tail(f), args[2 * j]>> \in Leaves(config)
              ELSE \A l \in Leaves(config) :
                     l[1] = Tail(f) => (l \in Leaves(DefaultConfig) \/ l \in ZeroAuthLeaves)
  /\ (pc = "done" /\ args = <<F_server_address, V_addr1, F_server_address, V_addr2>>)
        => (err = "" /\ config.Server.Address = V_addr2)

(* The two overrides of server.address of the claim have been applied. *)
C3_Witness ==
  /\ pc = "done"
  /\ args = <<F_server_address, V_addr1, F_server_address, V_addr2>>
  /\ err = ""
  /\ config.Server.Address = V_addr2

(* The dotted paths of the scalar leaves and of the records of the tree. *)
LeafKeys == { l[1] : l \in Leaves([DefaultConfig EXCEPT !.Server.Auth = <<Zero(ConfigAuth)>>]) }

RecordKeys ==
  { Txt_server, Txt_paths, Txt_redis, Txt_mail,
    JoinWith(<<Txt_server, Txt_auth>>, Dot),
    JoinWith(<<Txt_mail, Txt_templates>>, Dot),
    JoinWith(<<Txt_mail, Txt_templates, Txt_success>>, Dot),
    JoinWith(<<Txt_mail, Txt_templates, Txt_timeout>>, Dot),
    JoinWith(<<Txt_mail, Txt_templates, Txt_error>>, Dot) }

(* C4 as stated: an override whose path matches no node of the tree fails *)
(* with "Path not found in config" and leaves the tree, the auth record   *)
(* included, as it was.                                                   *)
C4_UnknownPathLeavesTree ==
  [][(Applying /\ key \notin LeafKeys \cup RecordKeys)
       => (Fails /\ err' = "Path not found in config" /\ config' = config)]_vars

(* C5: the auth record is nil until an override is applied whose path     *)
(* leads below server.auth; an override of server.auth.username or        *)
(* server.auth.password succeeds, writes the one field into the record    *)
(* there is, or into a zero valued record if there is none, and changes   *)
(* nothing else; the two overrides of the claim leave the default tree    *)
(* with auth = {alice, s3cr3t}.                                           *)
C5_AuthAllocatedOnFirstWrite ==
  /\ [][(config.Server.Auth = Nil /\ config'.Server.Auth # Nil)
          => (Applying /\ Len(Path) >= 3 /\ Path[1] = Txt_server /\ Path[2] = Txt_auth)]_vars
  /\ [][(Applying /\ key \in AuthKeys)
          => LET old == IF config.Server.Auth = Nil
                        THEN [Username |-> <<>>, Password |-> <<>>]
                        ELSE config.Server.Auth[1]
                 new == IF Path[3] = Txt_username
                        THEN [old EXCEPT !.Username = Value]
                        ELSE [old EXCEPT !.Password = Value]
             IN  Succeeds /\ config' = [config EXCEPT !.Server.Auth = <<new>>]]_vars
  /\ []((pc = "done" /\ args = <<F_auth_username, V_alice, F_auth_password, V_s3cr3t>>)
          => /\ err = ""
             /\ config = [DefaultConfig EXCEPT !.Server.Auth =
                             <<[Username |-> V_alice, Password |-> V_s3cr3t]>>])

(* The two overrides of the claim have been applied to the default tree. *)
C5_Witness ==
  /\ pc = "done"
  /\ args = <<F_auth_username, V_alice, F_auth_password, V_s3cr3t>>
  /\ config.Server.Auth = <<[Username |-> V_alice, Password |-> V_s3cr3t]>>

(* C6 as stated: an override whose path ends at a record, the optional    *)
(* record server.auth included, fails with "Leaf node is a struct" and    *)
(* writes nothing; an override that succeeds ends at a scalar leaf.       *)
C6_RecordPathIncomplete ==
  [][/\ (Applying /\ key \in RecordKeys)
          => (Fails /\ err' = "Leaf node is a struct" /\ config' = config)
     /\ (Applying /\ Succeeds) => key \in LeafKeys]_vars

BoolKeys == { JoinWith(<<Txt_server, Txt_cors>>, Dot),
              JoinWith(<<Txt_server, Txt_dbmanagment>>, Dot),
              Txt_verbose }

IntKeys == { JoinWith(<<Txt_redis, Txt_index>>, Dot) }

(* The value an accepted token stands for in a leaf of the kind of k. *)
Coerced(k, value) ==
  IF k \in BoolKeys THEN value \in { <<"1">>, <<"t">>, <<"T">>, <<"T", "R", "U", "E">>, <<"t", "r", "u", "e">>, <<"T", "r", "u", "e">> }
  ELSE IF k \in IntKeys THEN DecValue(TrimLeft(value, "+"), 0)
  ELSE value

(* C10: an override that succeeds leaves the leaf of its path with the    *)
(* coerced value; every other leaf is as before, but that the leaves of   *)
(* an auth record allocated on the way are there with zero values.        *)
C10_OneLeafChanges ==
  [][(Applying /\ Succeeds)
       => /\ <<key, Coerced(key, Value)>> \in Leaves(config')
          /\ \A m \in Leaves(config') :
                m[1] # key =>
                  \/ m \in Leaves(config)
                  \/ config.Server.Auth = Nil /\ key \in AuthKeys /\ m \in ZeroAuthLeaves
          /\ \A m \in Leaves(config) : m[1] # key => m \in Leaves(config')]_vars

(* The override of the integer leaf has been applied after one of a text *)
(* leaf.                                                                 *)
C10_Witness ==
  /\ pc = "scan"
  /\ idx = 4
  /\ args = <<F_server_address, V_alice, F_redis_index, V_3>>
  /\ config.Redis.DbIndex = 3
  /\ config.Server.Address = V_alice

(* The value of the leaf with dotted path k. *)
LeafValue(c, k) == (CHOOSE l \in Leaves(c) : l[1] = k)[2]

SpelledTrue == { <<"1">>, <<"t">>, <<"T">>, <<"T", "R", "U", "E">>, <<"t", "r", "u", "e">>, <<"T", "r", "u", "e">> }
SpelledFalse == { <<"0">>, <<"f">>, <<"F">>, <<"F", "A", "L", "S", "E">>, <<"f", "a", "l", "s", "e">>, <<"F", "a", "l", "s", "e">> }

(* C7 as stated: an override of a boolean leaf succeeds exactly when the  *)
(* value, with its letters in lower case, is one of true, false, 1, 0, t, *)
(* f, and sets the leaf accordingly; any other value fails and leaves the *)
(* leaf as it was.                                                        *)
C7_Original ==
  [][(Applying /\ key \in BoolKeys)
       => IF ToLower(Value) \in { <<"t", "r", "u", "e">>, <<"1">>, <<"t">> }
          THEN Succeeds /\ LeafValue(config', key) = TRUE
          ELSE IF ToLower(Value) \in { <<"f", "a", "l", "s", "e">>, <<"0">>, <<"f">> }
          THEN Succeeds /\ LeafValue(config', key) = FALSE
          ELSE Fails /\ LeafValue(config', key) = LeafValue(config, key)]_vars

(* C7 as amended: an override of a boolean leaf succeeds exactly when the *)
(* value is one of 1, t, T, TRUE, true, True, and then sets the leaf to   *)
(* true, or one of 0, f, F, FALSE, false, False, and then sets it to      *)
(* false; any other value, yes and other mixes of case such as tRUE       *)
(* included, fails with the syntax error of ParseBool and leaves the leaf *)
(* as it was.                                                             *)
C7_Amended ==
  [][(Applying /\ key \in BoolKeys)
       => IF Value \in SpelledTrue
          THEN Succeeds /\ LeafValue(config', key) = TRUE
          ELSE IF Value \in SpelledFalse
          THEN Succeeds /\ LeafValue(config', key) = FALSE
          ELSE /\ Fails
               /\ err' = "strconv.ParseBool: invalid syntax"
               /\ LeafValue(config', key) = LeafValue(config, key)]_vars

(* server.dbmanagment, false in the default tree, has been set by 1. *)
C7_Witness ==
  /\ pc = "scan"
  /\ idx = 2
  /\ args = <<F_server_dbmanagment, <<"1">>>>
  /\ config.Server.DbManagment = TRUE

(* The numerals among the values tried that fit 64 bits, with the number *)
(* each denotes, the values that are no numerals, and the numerals that   *)
(* do not fit.                                                            *)
FittingNumerals ==
  { <<<<"3">>, 3>>, <<<<"0">>, 0>>, <<<<"0", "0", "7">>, 7>>, <<<<"+", "7">>, 7>>,
    <<<<"2", "1", "4", "7", "4", "8", "3", "6", "4", "7">>, 2147483647>> }
NonNumeric == { <<"n", "o", "t", "a", "n", "u", "m", "b", "e", "r">>, <<"3", "x">>, <<>> }
Overflowing == { <<"9", "2", "2", "3", "3", "7", "2", "0", "3", "6", "8", "5", "4", "7", "7", "5", "8", "0", "8">>, <<"9", "9", "9", "9", "9", "9", "9", "9", "9", "9", "9", "9", "9", "9", "9", "9", "9", "9", "9", "9">> }

(* C8: an override of redis.index with a base 10 numeral that fits the    *)
(* 64 bits of the leaf sets the leaf to that number; a value that is no   *)
(* numeral, or a numeral that does not fit, fails with the error of       *)
(* ParseInt and leaves the leaf as it was.                                *)
C8_IntegerLeaf ==
  [][(Applying /\ key \in IntKeys)
       => /\ \A n \in FittingNumerals :
               Value = n[1] => (Succeeds /\ config'.Redis.DbIndex = n[2])
          /\ Value \in NonNumeric
               => /\ Fails
                  /\ err' = "strconv.ParseInt: invalid syntax"
                  /\ config'.Redis.DbIndex = config.Redis.DbIndex
          /\ Value \in Overflowing
               => /\ Fails
                  /\ err' = "strconv.ParseInt: value out of range"
                  /\ config'.Redis.DbIndex = config.Redis.DbIndex
          /\ \/ Value \in NonNumeric \cup Overflowing
             \/ \E n \in FittingNumerals : Value = n[1]]_vars

(* redis.index, 0 in the default tree, has been set by 3. *)
C8_Witness ==
  /\ pc = "scan"
  /\ idx = 2
  /\ args = <<F_redis_index, V_3>>
  /\ config.Redis.DbIndex = 3

(* What the claim says of a path value: one leading marker stripped and *)
(* the rest joined onto the anchor.                                     *)
OneMarkerStripped(p, rel) ==
  IF p # <<>> /\ p[1] = Tilde THEN Join(rel, Tail(p)) ELSE p

(* C9 as stated: ReadConfig leaves in databases, results and mmseqs the   *)
(* value with its one leading marker stripped and joined onto the anchor, *)
(* or the value itself if it has no marker, and never rewrites temporary. *)
C9_OneMarkerStripped ==
  [][(pc = "load" /\ pc' = "scan")
       => /\ config'.Paths.Databases = OneMarkerStripped(config.Paths.Databases, relativeTo)
          /\ config'.Paths.Results = OneMarkerStripped(config.Paths.Results, relativeTo)
          /\ config'.Paths.Mmseqs = OneMarkerStripped(config.Paths.Mmseqs, relativeTo)
          /\ config'.Paths.Temporary = config.Paths.Temporary]_vars

====
